---- MODULE Spec2Model ----
(***************************************************************************)
(* Model of synthetic_analysis/synthetic_sc_walk.py: construction of a     *)
(* random simplicial complex with two holes, its incidence matrices, the   *)
(* random walks over it, their encoding as training examples, and the      *)
(* saving of the dataset.                                                  *)
(*                                                                         *)
(* Conventions.  Nodes are the integers 0..n-1 as in the source.  Python   *)
(* lists and numpy arrays are TLA+ sequences, so the Python index j is the *)
(* TLA+ index j+1.  Coordinates are counted in sixteenths of the unit      *)
(* square: 1/4 is 4, 3/4 is 12, 1 is 16, 7/4 is 28, the hole radius 1/8 is *)
(* 2 (its square 4).                                                       *)
(***************************************************************************)
EXTENDS Integers, Sequences, FiniteSets, TLC

VARIABLES pc, err, n, m, hops, points, simplices, valid_idxs, faces, G, E, B1, B2,
          paths, D_1hop, paths_truncated, prefixes, suffixes_with_last_pref, last_nodes,
          hi, flows_ins, Bcondss, targetss, train_mask, test_mask,
          flow_path, flow, folder_isdir, folder_files, save_args, save_step

graphVars == <<n, points, simplices, valid_idxs, faces, G, E>>
matVars == <<B1, B2>>
walkVars == <<paths>>
truncVars == <<D_1hop, paths_truncated, prefixes, suffixes_with_last_pref, last_nodes>>
hopVars == <<hi, flows_ins, Bcondss, targetss>>
maskVars == <<train_mask, test_mask>>
genVars == <<m, hops, walkVars, truncVars, hopVars, maskVars>>
flowVars == <<flow_path, flow>>
saveVars == <<folder_isdir, folder_files, save_args, save_step>>

vars == <<pc, err, graphVars, matVars, genVars, flowVars, saveVars>>

\* ---- bounds ----
NumNodes == 4
MaxFaces == 2
MaxWalks == 3
MaxHop == 4
MaxPathLen == 4

\* ---- generic helpers (Python built-ins) ----
Range(s) == {s[k] : k \in DOMAIN s}

RECURSIVE SortedInts(_)
\* sorted(x) on a collection of integers, given as the set of its members
SortedInts(S) ==
    IF S = {} THEN <<>>
    ELSE LET lo == CHOOSE x \in S : \A y \in S : x <= y
         IN  <<lo>> \o SortedInts(S \ {lo})

\* sorted(f) for a tuple of distinct node ids
sorted(f) == SortedInts(Range(f))

\* tuple comparison of two pairs, as Python orders tuples
PairLess(e1, e2) == e1[1] < e2[1] \/ (e1[1] = e2[1] /\ e1[2] < e2[2])

RECURSIVE SortedPairs(_)
\* sorted(G.edges): the edge tuples in lexicographic order
SortedPairs(S) ==
    IF S = {} THEN <<>>
    ELSE LET lo == CHOOSE x \in S : \A y \in S \ {x} : PairLess(x, y)
         IN  <<lo>> \o SortedPairs(S \ {lo})

\* np.in1d(t, pool).all()
In1dAll(t, pool) == \A k \in DOMAIN t : t[k] \in pool

\* ---- random_SC_graph ----
Norm2(p, c) == (p[1] - c[1]) * (p[1] - c[1]) + (p[2] - c[2]) * (p[2] - c[2])

ValidIdxs(pts) ==
    {v \in DOMAIN pts : Norm2(pts[v], <<4, 12>>) > 4 /\ Norm2(pts[v], <<12, 4>>) > 4}

\* variant: a triangle is kept when any of its vertices is valid
Faces_any(tri, valid) == SelectSeq(tri, LAMBDA t : \E k \in DOMAIN t : t[k] \in valid)

Faces(tri, valid) == SelectSeq(tri, LAMBDA t : In1dAll(t, valid))

FaceEdges(f) ==
    LET s == sorted(f)
        a == s[1]
        b == s[2]
        c == s[3]
    IN  {<<a, b>>, <<b, c>>, <<a, c>>}

GraphOf(nn, fs) ==
    [nodes |-> 0..(nn - 1), edges |-> UNION {FaceEdges(fs[k]) : k \in DOMAIN fs}]

E_lookup(EE, e) == CHOOSE k \in DOMAIN EE : EE[k] = e

\* ---- incidience_matrices ----
\* variant: the orientation of the column reversed
B1Entry_swapped(v, e) == IF v = e[1] THEN 1 ELSE IF v = e[2] THEN -1 ELSE 0

B1Entry(v, e) == IF v = e[1] THEN -1 ELSE IF v = e[2] THEN 1 ELSE 0

B1Of(V, EE) == [v \in V |-> [k \in DOMAIN EE |-> B1Entry(v, EE[k])]]

\* variant: the last branch takes the sign of the (a,c) branch
B2Entry_flipped(e, f) ==
    LET se == sorted(e)
        e0 == se[1]
        e1 == se[2]
    IN  IF In1dAll(e, Range(f))
        THEN LET s == sorted(f)
                 a == s[1]
                 b == s[2]
             IN  IF e0 = a THEN (IF e1 = b THEN 1 ELSE -1) ELSE -1
        ELSE 0

B2Entry(e, f) ==
    LET se == sorted(e)
        e0 == se[1]
        e1 == se[2]
    IN  IF In1dAll(e, Range(f))
        THEN LET s == sorted(f)
                 a == s[1]
                 b == s[2]
             IN  IF e0 = a THEN (IF e1 = b THEN 1 ELSE -1) ELSE 1
        ELSE 0

B2Of(EE, fs) == [k \in DOMAIN EE |-> [j \in DOMAIN fs |-> B2Entry(EE[k], fs[j])]]

\* ---- generate_random_walks: the partition of the node space ----
\* np.sum(points_valid, axis=1) and points[:,1] - points[:,0] of one node
CoordSum(pts, v) == pts[v][1] + pts[v][2]
CoordDiff(pts, v) == pts[v][2] - pts[v][1]

BEGIN(pts, valid) == {v \in valid : CoordSum(pts, v) < 4}
END(pts, valid) == {v \in valid : CoordSum(pts, v) > 28}

A012(pts, valid) == {v \in valid : CoordSum(pts, v) > 4 /\ CoordSum(pts, v) < 16}
A0(pts, valid) == {v \in A012(pts, valid) : CoordDiff(pts, v) < 8 /\ CoordDiff(pts, v) > -8}
A1(pts, valid) == {v \in A012(pts, valid) : CoordDiff(pts, v) > 8}
A2(pts, valid) == {v \in A012(pts, valid) : CoordDiff(pts, v) < -8}

B012(pts, valid) == {v \in valid : CoordSum(pts, v) < 28 /\ CoordSum(pts, v) > 16}
B0(pts, valid) == {v \in B012(pts, valid) : CoordDiff(pts, v) < 8 /\ CoordDiff(pts, v) > -8}
B1_(pts, valid) == {v \in B012(pts, valid) : CoordDiff(pts, v) > 8}
B2_(pts, valid) == {v \in B012(pts, valid) : CoordDiff(pts, v) < -8}

\* the corridor of walk i (i counted from 0): i % 3 selects (A0,B0), (A1,B1_), (A2,B2_)
CorridorA(i, pts, valid) ==
    IF i % 3 = 0 THEN A0(pts, valid)
    ELSE IF i % 3 = 1 THEN A1(pts, valid) ELSE A2(pts, valid)

CorridorB(i, pts, valid) ==
    IF i % 3 = 0 THEN B0(pts, valid)
    ELSE IF i % 3 = 1 THEN B1_(pts, valid) ELSE B2_(pts, valid)

\* ---- G.to_undirected() and nx.shortest_path ----
\* G_undir[v]: the neighbours of v in the undirected graph
Nbrs(g, v) == {w \in g.nodes : <<v, w>> \in g.edges \/ <<w, v>> \in g.edges}

RECURSIVE BFSLayers(_, _, _)
\* breadth-first layers from a source: layers[k+1] holds the nodes at distance k
BFSLayers(g, layers, seen) ==
    LET frontier == layers[Len(layers)]
        next == (UNION {Nbrs(g, v) : v \in frontier}) \ seen
    IN  IF next = {} THEN layers
        ELSE BFSLayers(g, Append(layers, next), seen \cup next)

RECURSIVE PathsBack(_, _, _, _)
\* the shortest paths from the source to w, where w lies in layers[k]
PathsBack(g, layers, w, k) ==
    IF k = 1 THEN {<<w>>}
    ELSE UNION {{Append(p, w) : p \in PathsBack(g, layers, u, k - 1)} :
                    u \in Nbrs(g, w) \cap layers[k - 1]}

\* nx.shortest_path(G_undir, u, v): some shortest path; the empty set stands
\* for NetworkXNoPath
ShortestPaths(g, u, v) ==
    LET layers == BFSLayers(g, <<{u}>>, {u})
        ks == {k \in DOMAIN layers : v \in layers[k]}
    IN  IF ks = {} THEN {} ELSE PathsBack(g, layers, v, CHOOSE k \in ks : TRUE)

\* p[:-1]
ButLast(p) == SubSeq(p, 1, Len(p) - 1)

\* variant: no segment loses its final node
ConcatSegments_keepjoints(p1, p2, p3) == p1 \o p2 \o p3

\* the walk through the waypoints: segments joined, the final node of each
\* segment but the last dropped
ConcatSegments(p1, p2, p3) == ButLast(p1) \o ButLast(p2) \o p3

\* ---- helpers of generate_training_data ----
Min(a, b) == IF a < b THEN a ELSE b
Max(a, b) == IF a > b THEN a ELSE b

\* max(hops)
MaxOf(t) == CHOOSE x \in Range(t) : \A y \in Range(t) : y <= x

\* Python slices p[:k] (k >= 0), p[:-k] and p[-k:] (k >= 1)
Take(p, k) == SubSeq(p, 1, Min(k, Len(p)))
DropLast(p, k) == SubSeq(p, 1, Max(Len(p) - k, 0))
LastN(p, k) == SubSeq(p, Max(Len(p) - k, 0) + 1, Len(p))

\* np.max(list(dict(G_undir.degree()).values()))
MaxDegree(g) ==
    LET degs == {Cardinality(Nbrs(g, v)) : v \in g.nodes}
    IN  CHOOSE d \in degs : \A x \in degs : x <= d

\* the argument of np.random.choice when p is truncated
ChoiceRange(p, hs) == Len(p) - 4 + (MaxOf(hs) - 1)

\* the draws of np.random.choice(k), one per path: r[j] in 0..k-1
TruncationDraws(ps, hs) ==
    LET top == CHOOSE x \in {ChoiceRange(ps[j], hs) : j \in 1..Len(ps)} :
                   \A j \in 1..Len(ps) : ChoiceRange(ps[j], hs) <= x
    IN  {r \in [1..Len(ps) -> 0..(top - 1)] :
            \A j \in 1..Len(ps) : r[j] < ChoiceRange(ps[j], hs)}

RECURSIVE FlowLoop_assign(_, _, _, _)
\* variant: the entry is assigned, not accumulated
FlowLoop_assign(path, EE, j, f) ==
    IF j > Len(path) - 1 THEN f
    ELSE LET v0 == path[j]
             v1 == path[j + 1]
         IN  IF v0 < v1
             THEN FlowLoop_assign(path, EE, j + 1,
                                  [f EXCEPT ![E_lookup(EE, <<v0, v1>>)] = 1])
             ELSE FlowLoop_assign(path, EE, j + 1,
                                  [f EXCEPT ![E_lookup(EE, <<v1, v0>>)] = -1])

RECURSIVE FlowLoop(_, _, _, _)
\* the loop of path_to_flow from step j on, f the vector accumulated so far
FlowLoop(path, EE, j, f) ==
    IF j > Len(path) - 1 THEN f
    ELSE LET v0 == path[j]
             v1 == path[j + 1]
         IN  IF v0 < v1
             THEN FlowLoop(path, EE, j + 1, [f EXCEPT ![E_lookup(EE, <<v0, v1>>)] = @ + 1])
             ELSE FlowLoop(path, EE, j + 1, [f EXCEPT ![E_lookup(EE, <<v1, v0>>)] = @ - 1])

path_to_flow(path, EE) == FlowLoop(path, EE, 1, [k \in 1..Len(EE) |-> 0])

\* np.array(sorted(neighborhood(G_undir, v)))
neighborhood(g, v) == SortedInts(Nbrs(g, v))

\* variant: the indicator is written one place late
neighborhood_to_onehot_shifted(Nv, w, D) ==
    LET onehot == [k \in 1..Len(Nv) |-> IF Nv[k] = w THEN 1 ELSE 0]
    IN  [k \in 1..D |-> IF 1 < k /\ k <= Len(onehot) + 1 THEN onehot[k - 1] ELSE 0]

neighborhood_to_onehot(Nv, w, D) ==
    LET onehot == [k \in 1..Len(Nv) |-> IF Nv[k] = w THEN 1 ELSE 0]
    IN  [k \in 1..D |-> IF k <= Len(onehot) THEN onehot[k] ELSE 0]

\* variant: the first len(Nv) rows of B1 instead of the rows of Nv
conditional_incidence_matrix_firstrows(B, Nv, D) ==
    LET width == Len(E)
    IN  [r \in 1..D |-> IF r <= Len(Nv) THEN B[r - 1] ELSE [k \in 1..width |-> 0]]

conditional_incidence_matrix(B, Nv, D) ==
    LET width == Len(E)
    IN  [r \in 1..D |-> IF r <= Len(Nv) THEN B[Nv[r]] ELSE [k \in 1..width |-> 0]]

\* np.random.shuffle of a list of a ones and b zeros: every arrangement
Shuffles(a, b) ==
    {s \in [1..(a + b) -> {0, 1}] : Cardinality({k \in 1..(a + b) : s[k] = 1}) = a}

RECURSIVE WalksOfLen(_, _)
\* the node sequences of k nodes whose consecutive nodes are joined by an edge
WalksOfLen(g, k) ==
    IF k = 0 THEN {<<>>}
    ELSE IF k = 1 THEN {<<v>> : v \in g.nodes}
    ELSE UNION {{Append(w, v) : v \in Nbrs(g, w[Len(w)])} : w \in WalksOfLen(g, k - 1)}

WalksUpTo(g, k) == UNION {WalksOfLen(g, j) : j \in 0..k}

\* ---- save_training_data ----
\* the nine files, in the order they are written
FileNames ==
    <<"flows_in", "B1", "B2", "Bconds", "targets", "train_mask", "test_mask",
      "G_undir", "last_nodes">>

\* what a completed write leaves in the file
FileContent(args, name) ==
    IF name = "train_mask" THEN args.train_mask
    ELSE IF name = "test_mask" THEN args.test_mask
    ELSE name

BitSeqs(k) == UNION {[1..j -> {0, 1}] : j \in 0..k}

\* ---- inputs of the generic complex: sample points and triangulations ----
\* one sample point outside both holes, one inside the lower-right hole
SamplePoints == {<<8, 8>>, <<12, 5>>}

\* the vertex orders in which a triangle on the vertex set S is delivered:
\* ascending, and an unsorted one
VertexOrders(S) ==
    LET s == SortedInts(S)
    IN  {s, <<s[2], s[3], s[1]>>}

Triples(nn) ==
    UNION {VertexOrders(S) : S \in {T \in SUBSET (0..(nn - 1)) : Cardinality(T) = 3}}

\* triangulations: up to MaxFaces triangles on distinct vertex sets
Triangulations(nn, triples) ==
    UNION {{s \in [1..k -> triples] :
               \A i, j \in 1..k : i < j => Range(s[i]) # Range(s[j])} : k \in 0..MaxFaces}

\* triangles delivered with ascending vertices only
SortedTriples(nn) ==
    {SortedInts(S) : S \in {T \in SUBSET (0..(nn - 1)) : Cardinality(T) = 3}}

\* ---- actions ----
Init ==
    /\ pc = "start"
    /\ err = "none"
    /\ n = 0
    /\ m = 0
    /\ hops = <<>>
    /\ paths = <<>>
    /\ D_1hop = 0
    /\ paths_truncated = <<>>
    /\ prefixes = <<>>
    /\ suffixes_with_last_pref = <<>>
    /\ last_nodes = <<>>
    /\ hi = 0
    /\ flows_ins = <<>>
    /\ Bcondss = <<>>
    /\ targetss = <<>>
    /\ train_mask = <<>>
    /\ test_mask = <<>>
    /\ flow_path = <<>>
    /\ flow = <<>>
    /\ folder_isdir = FALSE
    /\ folder_files = <<>>
    /\ save_args = <<>>
    /\ save_step = 0
    /\ points = <<>>
    /\ simplices = <<>>
    /\ valid_idxs = {}
    /\ faces = <<>>
    /\ G = [nodes |-> {}, edges |-> {}]
    /\ E = <<>>
    /\ B1 = <<>>
    /\ B2 = <<>>

random_SC_graph(nn, pts, tri) ==
    /\ pc = "start"
    /\ n' = nn
    /\ points' = pts
    /\ simplices' = tri
    /\ valid_idxs' = ValidIdxs(pts)
    /\ faces' = Faces(tri, ValidIdxs(pts))
    /\ G' = GraphOf(nn, faces')
    /\ E' = SortedPairs(G'.edges)
    /\ pc' = "graph"
    /\ UNCHANGED <<err, matVars, walkVars, truncVars, hopVars, maskVars, flowVars, saveVars>>

incidience_matrices ==
    /\ pc = "graph"
    /\ B1' = B1Of(G.nodes, E)
    /\ B2' = B2Of(E, faces)
    /\ pc' = "matrices"
    /\ UNCHANGED <<err, graphVars, genVars, flowVars, saveVars>>

SampleComplex ==
    /\ pc = "start"
    /\ \E pts \in [0..(NumNodes - 1) -> SamplePoints], tri \in Triangulations(NumNodes, Triples(NumNodes)) :
           random_SC_graph(NumNodes, pts, tri)
    /\ UNCHANGED <<m, hops>>

\* one iteration of the loop of generate_random_walks
generate_random_walks ==
    /\ pc = "matrices"
    /\ Len(paths) < m
    /\ LET i == Len(paths)
           Bg == BEGIN(points, valid_idxs)
           Av == CorridorA(i, points, valid_idxs)
           Bv == CorridorB(i, points, valid_idxs)
           En == END(points, valid_idxs)
       IN  IF Bg = {} \/ Av = {} \/ Bv = {} \/ En = {}
           THEN \* np.random.choice of an empty array
                /\ pc' = "error"
                /\ err' = "choice_empty"
                /\ UNCHANGED paths
           ELSE \E v_begin \in Bg, v_1 \in Av, v_2 \in Bv, v_end \in En :
                  LET s1 == ShortestPaths(G, v_begin, v_1)
                      s2 == ShortestPaths(G, v_1, v_2)
                      s3 == ShortestPaths(G, v_2, v_end)
                  IN  IF s1 = {} \/ s2 = {} \/ s3 = {}
                      THEN /\ pc' = "error"
                           /\ err' = "NetworkXNoPath"
                           /\ UNCHANGED paths
                      ELSE \E p1 \in s1, p2 \in s2, p3 \in s3 :
                             /\ paths' = Append(paths, ConcatSegments(p1, p2, p3))
                             /\ UNCHANGED <<pc, err>>
    /\ UNCHANGED <<m, hops, graphVars, matVars, truncVars, hopVars, maskVars, flowVars,
                   saveVars>>

\* generate_training_data, lines 249-262: padding degree, truncation, split
truncate_paths ==
    /\ pc = "matrices"
    /\ Len(paths) = m
    /\ D_1hop' = MaxDegree(G)
    /\ IF \E j \in 1..Len(paths) : ChoiceRange(paths[j], hops) <= 0
       THEN \* np.random.choice(k) with k <= 0
            /\ pc' = "error"
            /\ err' = "choice_nonpositive"
            /\ UNCHANGED <<paths_truncated, prefixes, suffixes_with_last_pref,
                           last_nodes, hi>>
       ELSE \E r \in TruncationDraws(paths, hops) :
              /\ paths_truncated' = [j \in 1..Len(paths) |-> Take(paths[j], 4 + r[j])]
              /\ prefixes' = [j \in 1..Len(paths) |->
                                 DropLast(paths_truncated'[j], MaxOf(hops))]
              /\ suffixes_with_last_pref' = [j \in 1..Len(paths) |->
                                 LastN(paths_truncated'[j], MaxOf(hops) + 1)]
              /\ last_nodes' = [j \in 1..Len(paths) |-> suffixes_with_last_pref'[j][1]]
              /\ hi' = 1
              /\ pc' = "hops"
              /\ UNCHANGED err
    /\ UNCHANGED <<m, hops, graphVars, matVars, walkVars, flows_ins, Bcondss, targetss,
                   maskVars, flowVars, saveVars>>

\* one iteration of the loop over hops, lines 265-285
encode_hop ==
    /\ pc = "hops"
    /\ hi <= Len(hops)
    /\ LET h == hops[hi]
           ss == suffixes_with_last_pref
           cnt == Len(ss)
       IN  IF \E j \in 1..cnt : h + 1 > Len(ss[j])
           THEN \* s[h] past the end of a suffix
                /\ pc' = "error"
                /\ err' = "IndexError"
                /\ UNCHANGED hopVars
           ELSE LET flows_in == [j \in 1..cnt |-> path_to_flow(prefixes[j], E)]
                    penultimate_nbrs == [j \in 1..cnt |-> neighborhood(G, ss[j][h])]
                    endpoints == [j \in 1..cnt |-> ss[j][h + 1]]
                    Bconds == [j \in 1..cnt |->
                        conditional_incidence_matrix(B1, penultimate_nbrs[j], D_1hop)]
                    targets == [j \in 1..cnt |->
                        neighborhood_to_onehot(penultimate_nbrs[j], endpoints[j], D_1hop)]
                IN  /\ flows_ins' = Append(flows_ins, flows_in)
                    /\ Bcondss' = Append(Bcondss, Bconds)
                    /\ targetss' = Append(targetss, targets)
                    /\ hi' = hi + 1
                    /\ UNCHANGED <<pc, err>>
    /\ UNCHANGED <<m, hops, graphVars, matVars, walkVars, truncVars, maskVars, flowVars,
                   saveVars>>

\* train and test masks, lines 288-293.  int(x * 0.8) and int(x * 0.2) are
\* the floors of 8x/10 and 2x/10 (the doubles 0.8 and 0.2 lie just above the
\* fractions, and the products stay below the next integer).
make_masks ==
    /\ pc = "hops"
    /\ hi > Len(hops)
    /\ LET cnt == Len(flows_ins[1])
       IN  \E t \in Shuffles((cnt * 8) \div 10, (cnt * 2) \div 10) :
              /\ train_mask' = t
              /\ test_mask' = [k \in DOMAIN t |-> 1 - t[k]]
    /\ pc' = "done"
    /\ UNCHANGED <<err, m, hops, graphVars, matVars, walkVars, truncVars, hopVars,
                   flowVars, saveVars>>

\* ---- the sampled scenes of the walk pipeline ----
\* Point sets with their Delaunay triangulations (vertex order as delivered,
\* not sorted).  Scene 1: four nodes BEGIN, A0, B0, END.  Scene 2: the same
\* labelled in reverse.  Scene 3: nine nodes, all three corridors, node 8
\* inside the upper-left hole.  Scene 4: scene 1 with a fifth node in the
\* lower-right hole, which disconnects END.  Scene 5: no END node.
Scenes ==
    { [pts |-> [v \in 0..3 |-> <<<<1, 1>>, <<5, 4>>, <<10, 11>>, <<15, 14>>>>[v + 1]],
       tri |-> <<<<2, 0, 1>>, <<1, 3, 2>>>>],
      [pts |-> [v \in 0..3 |-> <<<<15, 14>>, <<10, 11>>, <<5, 4>>, <<1, 1>>>>[v + 1]],
       tri |-> <<<<1, 2, 0>>, <<3, 2, 1>>>>],
      [pts |-> [v \in 0..8 |-> <<<<1, 1>>, <<3, 4>>, <<11, 13>>, <<15, 15>>, <<1, 10>>,
                                 <<3, 14>>, <<10, 1>>, <<14, 3>>, <<5, 12>>>>[v + 1]],
       tri |-> <<<<4, 0, 1>>, <<1, 0, 6>>, <<8, 4, 1>>, <<6, 8, 1>>, <<2, 5, 3>>,
                 <<3, 7, 2>>, <<8, 5, 2>>, <<2, 7, 6>>, <<6, 2, 8>>, <<5, 8, 4>>>>],
      [pts |-> [v \in 0..4 |-> <<<<1, 1>>, <<5, 4>>, <<10, 11>>, <<15, 14>>,
                                 <<12, 4>>>>[v + 1]],
       tri |-> <<<<2, 0, 1>>, <<0, 4, 1>>, <<4, 2, 1>>, <<3, 2, 4>>>>],
      [pts |-> [v \in 0..2 |-> <<<<1, 1>>, <<5, 4>>, <<10, 11>>>>[v + 1]],
       tri |-> <<<<0, 1, 2>>>>] }

HopChoices ==
    UNION {{h \in [1..k -> 1..MaxHop] : \A a, b \in 1..k : a < b => h[a] < h[b]} :
              k \in 1..MaxHop}

\* generate_training_data(n, m, hops) up to the return of random_SC_graph
SampleScene ==
    /\ pc = "start"
    /\ \E sc \in Scenes, mm \in 1..MaxWalks, hh \in HopChoices :
           /\ random_SC_graph(Cardinality(DOMAIN sc.pts), sc.pts, sc.tri)
           /\ m' = mm
           /\ hops' = hh

Next ==
    \/ SampleScene
    \/ incidience_matrices
    \/ generate_random_walks
    \/ truncate_paths
    \/ encode_hop
    \/ make_masks

Spec == Init /\ [][Next]_vars

\* ---- path_to_flow on the paths of a sampled complex ----
FlowComplex ==
    /\ pc = "start"
    /\ \E tri \in Triangulations(NumNodes, SortedTriples(NumNodes)) :
           random_SC_graph(NumNodes, [v \in 0..(NumNodes - 1) |-> <<8, 8>>], tri)
    /\ UNCHANGED <<m, hops>>

path_to_flow_call ==
    /\ pc = "graph"
    /\ \E p \in WalksUpTo(G, MaxPathLen) :
           /\ flow_path' = p
           /\ flow' = path_to_flow(p, E)
    /\ pc' = "flow"
    /\ UNCHANGED <<err, graphVars, matVars, genVars, saveVars>>

NextFlow == FlowComplex \/ path_to_flow_call

SpecFlow == Init /\ [][NextFlow]_vars

\* ---- save_training_data, one step per file-system call ----
\* the call: the arguments and the state of the destination folder
save_training_data ==
    /\ pc = "start"
    /\ \E t \in BitSeqs(MaxWalks), d \in BOOLEAN :
           /\ save_args' = [train_mask |-> t, test_mask |-> [k \in DOMAIN t |-> 1 - t[k]]]
           /\ folder_isdir' = d
    /\ folder_files' = [k \in 1..Len(FileNames) |-> "absent"]
    /\ save_step' = 0
    /\ pc' = "save"
    /\ UNCHANGED <<err, graphVars, matVars, genVars, flowVars>>

\* lines 299-300: os.mkdir succeeds or raises
save_mkdir ==
    /\ pc = "save"
    /\ save_step = 0
    /\ IF folder_isdir
       THEN /\ save_step' = 1
            /\ UNCHANGED <<pc, err, folder_isdir>>
       ELSE \/ /\ folder_isdir' = TRUE
               /\ save_step' = 1
               /\ UNCHANGED <<pc, err>>
            \/ /\ pc' = "error"
               /\ err' = "OSError"
               /\ UNCHANGED <<folder_isdir, save_step>>
    /\ UNCHANGED <<folder_files, save_args, graphVars, matVars, genVars, flowVars>>

\* lines 305-313: the write of file save_step succeeds, or raises leaving the
\* file missing or partly written; nothing already written is removed
save_write ==
    /\ pc = "save"
    /\ save_step \in 1..Len(FileNames)
    /\ \/ /\ folder_files' = [folder_files EXCEPT ![save_step] =
                                 FileContent(save_args, FileNames[save_step])]
          /\ save_step' = save_step + 1
          /\ pc' = IF save_step = Len(FileNames) THEN "saved" ELSE "save"
          /\ UNCHANGED err
       \/ /\ pc' = "error"
          /\ err' = "OSError"
          /\ \/ folder_files' = folder_files
             \/ folder_files' = [folder_files EXCEPT ![save_step] = "partial"]
          /\ UNCHANGED save_step
    /\ UNCHANGED <<folder_isdir, save_args, graphVars, matVars, genVars, flowVars>>

NextSave == save_training_data \/ save_mkdir \/ save_write

SpecSave == Init /\ [][NextSave]_vars

NextComplex == SampleComplex \/ incidience_matrices

SpecComplex == Init /\ [][NextComplex]_vars

\* ======================= properties =======================
\* ---- vocabulary of the properties ----
Joined(a, b) == <<a, b>> \in G.edges \/ <<b, a>> \in G.edges

Deg(v) == Cardinality({w \in G.nodes : Joined(v, w)})

\* d is the maximum undirected degree
IsMaxDegree(d) == (\A v \in G.nodes : Deg(v) <= d) /\ (\E v \in G.nodes : Deg(v) = d)

\* the position (from 1) of w among the neighbours of v in ascending order
RankAmongNbrs(v, w) == 1 + Cardinality({u \in G.nodes : Joined(v, u) /\ u < w})

\* the j-th neighbour (from 1) of v in ascending order
NthNbr(v, j) == CHOOSE w \in G.nodes : Joined(v, w) /\ RankAmongNbrs(v, w) = j

OutsideHoles(v) ==
    /\ Norm2(points[v], <<4, 12>>) > 4
    /\ Norm2(points[v], <<12, 4>>) > 4

RECURSIVE ColumnSum(_, _)
\* the sum of column k of B1 over the rows in S
ColumnSum(S, k) ==
    IF S = {} THEN 0
    ELSE LET v == CHOOSE x \in S : TRUE
         IN  B1[v][k] + ColumnSum(S \ {v}, k)

\* the number of steps a -> b in p
Steps(p, a, b) == Cardinality({j \in 1..(Len(p) - 1) : p[j] = a /\ p[j + 1] = b})

\* C1: when generate_training_data returns, train_mask and test_mask each
\* have exactly m entries, and train_mask[i] + test_mask[i] = 1 for every
\* example i.
C1_MasksPartition ==
    pc = "done" =>
        /\ Len(train_mask) = m
        /\ Len(test_mask) = m
        /\ \A i \in 1..m : train_mask[i] + test_mask[i] = 1

\* C2: every target vector has length D, the maximum undirected degree; among
\* its first deg(pivot) entries exactly one is 1, the one at the position of
\* the true next node suffix[h] in the ascending neighbour list of the pivot
\* suffix[h-1]; every entry past deg(pivot) is 0.
C2_TargetOneHot ==
    \A x \in DOMAIN targetss : \A j \in DOMAIN targetss[x] :
        LET h == hops[x]
            s == suffixes_with_last_pref[j]
            pivot == s[h]
            nxt == s[h + 1]
            t == targetss[x][j]
            k == Deg(pivot)
        IN  /\ IsMaxDegree(Len(t))
            /\ Joined(pivot, nxt)
            /\ {i \in 1..k : t[i] = 1} = {RankAmongNbrs(pivot, nxt)}
            /\ \A i \in (k + 1)..Len(t) : t[i] = 0

C2_Witness ==
    /\ pc = "done"
    /\ \E x \in DOMAIN targetss : \E j \in DOMAIN targetss[x] :
          LET s == suffixes_with_last_pref[j]
          IN  /\ hops[x] >= 2
              /\ Deg(s[hops[x]]) < D_1hop
              /\ RankAmongNbrs(s[hops[x]], s[hops[x] + 1]) > 1
              /\ targetss[x][j][RankAmongNbrs(s[hops[x]], s[hops[x] + 1])] = 1

\* C3: for every retained face with sorted vertices a < b < c the sides (a,b),
\* (a,c), (b,c) are in E, and the face's column of B2 has exactly 3 nonzero
\* entries: +1 at (a,b), +1 at (b,c), -1 at (a,c); 0 at every other edge.
C3_FaceColumn ==
    pc = "matrices" =>
        \A fi \in DOMAIN faces :
            \E a, b, c \in Range(faces[fi]) :
                /\ a < b /\ b < c
                /\ {<<a, b>>, <<a, c>>, <<b, c>>} \subseteq Range(E)
                /\ \A k \in DOMAIN E :
                      B2[k][fi] = IF E[k] = <<a, b>> \/ E[k] = <<b, c>> THEN 1
                                  ELSE IF E[k] = <<a, c>> THEN -1 ELSE 0
                /\ Cardinality({k \in DOMAIN E : B2[k][fi] # 0}) = 3

C3_Witness ==
    /\ pc = "matrices"
    /\ Len(faces) = 2
    /\ Len(simplices) = 2
    /\ \E k \in DOMAIN E : B2[k][1] = -1 /\ B2[k][2] = 1
    /\ \E k \in DOMAIN E : B2[k][1] = 0

\* C4: every edge of E is a pair (a,b) with a < b, and its column of B1 has
\* exactly two nonzero entries, -1 in row a and +1 in row b, so the column
\* sums to 0.
C4_EdgeColumn ==
    pc = "matrices" =>
        \A k \in DOMAIN E :
            LET a == E[k][1]
                b == E[k][2]
            IN  /\ a < b
                /\ {v \in G.nodes : B1[v][k] # 0} = {a, b}
                /\ B1[a][k] = -1
                /\ B1[b][k] = 1
                /\ ColumnSum(G.nodes, k) = 0

C4_Witness ==
    /\ pc = "matrices"
    /\ Len(E) = 5
    /\ valid_idxs = G.nodes
    /\ \E k \in DOMAIN E : E[k] = <<0, 3>> /\ B1[3][k] = 1

\* C5: in every walk built by generate_random_walks, every two consecutive
\* nodes are joined by an edge of the undirected graph, the segment joins
\* included.
C5_WalkAdjacent ==
    \A j \in DOMAIN paths : \A k \in 1..(Len(paths[j]) - 1) :
        Joined(paths[j][k], paths[j][k + 1])

C5_Witness ==
    /\ Len(paths) = 3
    /\ Len(paths[1]) = 5
    /\ Len(paths[2]) = 7
    /\ paths[2][1] = paths[2][3]
    /\ Len(paths[3]) = 4

\* C6: for every walk of at least 4 nodes and every non-empty hop set the
\* truncation step succeeds, and the truncated walk has a length L with
\* 4 <= L <= 4 + max(H) - 1.
C6_TruncationWindow ==
    /\ err # "choice_nonpositive"
    /\ \A j \in DOMAIN paths_truncated :
          /\ 4 <= Len(paths_truncated[j])
          /\ Len(paths_truncated[j]) <= 4 + MaxOf(hops) - 1

\* C7: path_to_flow returns a vector of length |E| whose entry at the index
\* of edge (a,b), a < b, is the number of steps a -> b of the path minus the
\* number of steps b -> a (0 for an edge never traversed); an empty or
\* single-node path gives the all-zero vector.
C7_FlowSignedCount ==
    pc = "flow" =>
        /\ Len(flow) = Len(E)
        /\ \A k \in DOMAIN E :
              flow[k] = Steps(flow_path, E[k][1], E[k][2])
                            - Steps(flow_path, E[k][2], E[k][1])
        /\ Len(flow_path) <= 1 => \A k \in DOMAIN E : flow[k] = 0

C7_Witness ==
    /\ pc = "flow"
    /\ \E k \in DOMAIN E :
          /\ flow[k] = -1
          /\ Steps(flow_path, E[k][2], E[k][1]) = 2
          /\ Steps(flow_path, E[k][1], E[k][2]) = 1

\* C8: if a write of save_training_data fails, the error reaches the caller
\* and the folder holds either none of the nine dataset files or all nine.
C8_NoPartialDataset ==
    (pc = "error" /\ err = "OSError") =>
        \/ \A k \in DOMAIN folder_files : folder_files[k] = "absent"
        \/ \A k \in DOMAIN folder_files : folder_files[k] # "absent"

\* C9: for every pivot v, with k = deg(v) and D the maximum undirected
\* degree, k <= D and the conditional incidence matrix is D x |E|: row j
\* (from 1) up to k is the B1 row of the j-th neighbour of v in ascending
\* order, and every later row is all zeros.
C9_ConditionalIncidence ==
    \A x \in DOMAIN Bcondss : \A j \in DOMAIN Bcondss[x] :
        LET pivot == suffixes_with_last_pref[j][hops[x]]
            M == Bcondss[x][j]
            k == Deg(pivot)
        IN  /\ k <= Len(M)
            /\ IsMaxDegree(Len(M))
            /\ \A r \in DOMAIN M :
                  /\ Len(M[r]) = Len(E)
                  /\ r <= k => M[r] = B1[NthNbr(pivot, r)]
                  /\ r > k => \A c \in DOMAIN E : M[r][c] = 0

C9_Witness ==
    /\ pc = "done"
    /\ \E x \in DOMAIN Bcondss : \E j \in DOMAIN Bcondss[x] :
          LET pivot == suffixes_with_last_pref[j][hops[x]]
          IN  /\ Deg(pivot) >= 3
              /\ Deg(pivot) < Len(Bcondss[x][j])
              /\ Bcondss[x][j][Deg(pivot)] = B1[NthNbr(pivot, Deg(pivot))]
              /\ pivot > NthNbr(pivot, 1)

\* C10: every node on a walk built by generate_random_walks lies outside both
\* hole disks.
C10_WalkOutsideHoles ==
    \A j \in DOMAIN paths : \A k \in DOMAIN paths[j] : OutsideHoles(paths[j][k])

C10_Witness ==
    /\ Len(paths) = m
    /\ m >= 1
    /\ \E v \in G.nodes : ~OutsideHoles(v)
    /\ \E j \in DOMAIN paths : Len(paths[j]) >= 6

====
